---- MODULE Spec2Model ----
(***************************************************************************)
(* Model of lnb_hakatons/pipeline/clean_data.py: the MARC subfield parser, *)
(* the text extractors, the name normalizer and the batch pipeline         *)
(* (load, expand, filter, harmonize, save).                                *)
(*                                                                         *)
(* Encoding.  A Python str is a sequence of characters; a character is a   *)
(* one-token TLA+ string.  The module is ASCII, so a non-ASCII letter is a *)
(* token spelled with an ASCII mark: "a-" (a with macron), "e-", "i-",     *)
(* "u-", "z^" (z with caron), "s^", "c^", "g,", "k,", "l,", "n,", their    *)
(* capitals "A-", "Z^", ..., and the Cyrillic letters "ru_r", "ru_e",      *)
(* "ru_zh", ... ("RU_R", ... for capitals).  pandas NaN / Python None is   *)
(* the value NaN, a one-element sequence whose token is no character.      *)
(* A DataFrame is a sequence of rows; a row is a function from column      *)
(* names to cell values; the columns are named by MARC tag and subfield    *)
(* code ("787_a" is "RECENZETAIS IZDEVUMS (787)_a").  The field "idx" of a *)
(* row is its position in the input table (the DataFrame index).           *)
(***************************************************************************)
EXTENDS Integers, Sequences, FiniteSets, TLC

VARIABLES
    text,              \* the argument of the helper function under check
    matches,           \* parse_marc_subfields: the list re.findall returned
    out,               \* the value the helper function returned
    tpc,               \* "input" before the call, the function's name after
    pc,                \* position of the __main__ script
    data_df,           \* the loaded table (raw compound cells)
    columns,           \* the subfield columns expand_marc_columns created
    working_df,        \* the expanded table the filters read
    final_df,          \* the kept table
    filtered_out_by_author,
    filtered_out_by_review,
    all_filtered_out,  \* the rejected table
    written            \* the output files written so far

vars == <<text, matches, out, tpc, pc, data_df, columns, working_df, final_df,
          filtered_out_by_author, filtered_out_by_review, all_filtered_out, written>>

textVars == <<text, matches, out, tpc>>
mainVars == <<pc, data_df, columns, working_df, final_df,
              filtered_out_by_author, filtered_out_by_review, all_filtered_out, written>>

-----------------------------------------------------------------------------
(* Python str primitives *)

NaN == <<"NaN">>

isna(v) == v = NaN

notna(v) == v # NaN

\* str.isspace of one character (the \s class of re)
IsSpace(c) == c \in {" ", "\t", "\n", "\r"}

Min(S) == CHOOSE x \in S : \A y \in S : x <= y

Max(S) == CHOOSE x \in S : \A y \in S : x >= y

\* str.find(c, start) with 1-based positions; 0 when not found
find(s, c, start) ==
    LET hits == {i \in start..Len(s) : s[i] = c}
    IN  IF hits = {} THEN 0 ELSE Min(hits)

\* end of the run of characters other than c that starts at position from
\* (the position of the next c, or Len(s)+1)
RunEnd(s, c, from) ==
    LET p == find(s, c, from) IN IF p = 0 THEN Len(s) + 1 ELSE p

lstrip(s) ==
    LET keep == {i \in 1..Len(s) : ~IsSpace(s[i])}
    IN  IF keep = {} THEN <<>> ELSE SubSeq(s, Min(keep), Len(s))

rstrip(s) ==
    LET keep == {i \in 1..Len(s) : ~IsSpace(s[i])}
    IN  IF keep = {} THEN <<>> ELSE SubSeq(s, 1, Max(keep))

\* str.strip()
strip(s) == lstrip(rstrip(s))

\* str.rstrip(chars)
rstrip_chars(s, chars) ==
    LET keep == {i \in 1..Len(s) : s[i] \notin chars}
    IN  IF keep = {} THEN <<>> ELSE SubSeq(s, 1, Max(keep))

\* re.sub(r'\s+', ' ', s)
RECURSIVE collapse_ws(_)
collapse_ws(s) ==
    IF s = <<>> THEN <<>>
    ELSE IF IsSpace(s[1])
         THEN <<" ">> \o collapse_ws(lstrip(s))
         ELSE <<s[1]>> \o collapse_ws(Tail(s))

\* str.replace(c, "") for a one-character c
RECURSIVE remove_char(_, _)
remove_char(s, c) ==
    IF s = <<>> THEN <<>>
    ELSE (IF s[1] = c THEN <<>> ELSE <<s[1]>>) \o remove_char(Tail(s), c)

\* whether sub occurs in s at position p
OccursAt(s, sub, p) ==
    /\ p >= 1
    /\ p + Len(sub) - 1 <= Len(s)
    /\ \A k \in 1..Len(sub) : s[p + k - 1] = sub[k]

\* sub in s
contains(s, sub) == \E p \in 1..(Len(s) + 1) : OccursAt(s, sub, p)

-----------------------------------------------------------------------------
(* parse_marc_subfields *)

\* the class [a-z0-9] of the subfield pattern
CodeChars ==
    {"a","b","c","d","e","f","g","h","i","j","k","l","m","n","o","p","q","r",
     "s","t","u","v","w","x","y","z","0","1","2","3","4","5","6","7","8","9"}

\* re.findall(r'\$\$([a-z0-9])([^$]*)', s) scanning from position p; each
\* match is kept with the position it started at
RECURSIVE findall_subfields(_, _)
findall_subfields(s, p) ==
    IF p > Len(s) THEN <<>>
    ELSE IF /\ p + 2 <= Len(s)
            /\ s[p] = "$"
            /\ s[p + 1] = "$"
            /\ s[p + 2] \in CodeChars
         THEN LET e == RunEnd(s, "$", p + 3)
              IN  <<[pos |-> p, code |-> s[p + 2], content |-> SubSeq(s, p + 3, e - 1)]>>
                  \o findall_subfields(s, e)
         ELSE findall_subfields(s, p + 1)

EmptyDict == [c \in {} |-> <<>>]

SetItem(d, k, v) == [c \in (DOMAIN d) \cup {k} |-> IF c = k THEN v ELSE d[c]]

\* the mutant: an earlier occurrence of a code is kept
RECURSIVE build_result_first_wins(_, _)
build_result_first_wins(ms, result) ==
    IF ms = <<>> THEN result
    ELSE LET clean_content == strip(ms[1].content)
         IN  build_result_first_wins(Tail(ms),
                 IF clean_content # <<>> /\ ms[1].code \notin DOMAIN result
                 THEN SetItem(result, ms[1].code, clean_content)
                 ELSE result)

\* the loop over matches that fills the result dictionary
RECURSIVE build_result(_, _)
build_result(ms, result) ==
    IF ms = <<>> THEN result
    ELSE LET clean_content == strip(ms[1].content)
         IN  build_result(Tail(ms),
                 IF clean_content # <<>>
                 THEN SetItem(result, ms[1].code, clean_content)
                 ELSE result)

parse_marc_subfields(s) ==
    IF isna(s) \/ s = <<"N", "A">> THEN EmptyDict
    ELSE build_result(findall_subfields(s, 1), EmptyDict)

\* dict.get(code, None)
get(d, k) == IF k \in DOMAIN d THEN d[k] ELSE NaN

-----------------------------------------------------------------------------
(* character case *)

UpperChars ==
    <<"A","B","C","D","E","F","G","H","I","J","K","L","M","N","O","P","Q","R","S","T","U","V","W","X","Y","Z","A-","C^","E-","G,","I-","K,","L,","N,","S^","U-","Z^","RU_R","RU_E","RU_ZH","RU_I","RU_S","RU_YO","RU_A","RU_Y","RU_O","RU_M","RU_U","RU_V","RU_YA","RU_H">>

LowerChars ==
    <<"a","b","c","d","e","f","g","h","i","j","k","l","m","n","o","p","q","r","s","t","u","v","w","x","y","z","a-","c^","e-","g,","i-","k,","l,","n,","s^","u-","z^","ru_r","ru_e","ru_zh","ru_i","ru_s","ru_yo","ru_a","ru_y","ru_o","ru_m","ru_u","ru_v","ru_ya","ru_h">>

\* str.isupper of one character
isupper(c) == \E i \in 1..Len(UpperChars) : UpperChars[i] = c

\* str.lower of one character
lower_char(c) ==
    IF isupper(c)
    THEN LowerChars[CHOOSE i \in 1..Len(UpperChars) : UpperChars[i] = c]
    ELSE c

\* str.lower()
RECURSIVE lower(_)
lower(s) == IF s = <<>> THEN <<>> ELSE <<lower_char(s[1])>> \o lower(Tail(s))

-----------------------------------------------------------------------------
(* change_name_pattern *)

NoMatch == [found |-> FALSE]

\* the tail \s*([^,]+) of the name and publisher patterns, tried right after
\* position q: \s* takes the whole run of spaces and gives one back when a
\* comma or the end follows it
match_spaces_then_non_commas(s, q) ==
    LET r == q + 1
        nonspace == {i \in r..Len(s) : ~IsSpace(s[i])}
        w == IF nonspace = {} THEN Len(s) + 1 ELSE Min(nonspace)
    IN  IF w <= Len(s) /\ s[w] # ","
        THEN [found |-> TRUE, g |-> SubSeq(s, w, RunEnd(s, ",", w) - 1)]
        ELSE IF w > r
             THEN [found |-> TRUE, g |-> SubSeq(s, w - 1, w - 1)]
             ELSE NoMatch

\* r'([^,]+),\s*([^,]+)' tried at start position p
match_name_at(s, p) ==
    IF s[p] = "," THEN NoMatch
    ELSE LET q == RunEnd(s, ",", p)
         IN  IF q > Len(s) THEN NoMatch
             ELSE LET m2 == match_spaces_then_non_commas(s, q)
                  IN  IF m2.found
                      THEN [found |-> TRUE, g1 |-> SubSeq(s, p, q - 1), g2 |-> m2.g]
                      ELSE NoMatch

\* re.search: the leftmost start position that matches
RECURSIVE search_name(_, _)
search_name(s, p) ==
    IF p > Len(s) THEN NoMatch
    ELSE LET m == match_name_at(s, p)
         IN  IF m.found THEN m ELSE search_name(s, p + 1)

\* the mutant: a greedy surname group, so the last comma is the separator
change_name_pattern_last_comma(t) ==
    IF isna(t) \/ t = <<>> THEN t
    ELSE LET s == strip(t)
             commas == {i \in 1..Len(s) : s[i] = ","}
         IN  IF commas = {} THEN t
             ELSE strip(SubSeq(s, Max(commas) + 1, Len(s))) \o <<" ">>
                  \o strip(SubSeq(s, 1, Max(commas) - 1))

change_name_pattern(t) ==
    IF isna(t) \/ t = <<>> THEN t
    ELSE LET match == search_name(strip(t), 1)
         IN  IF match.found
             THEN LET surname == strip(match.g1)
                      first_name == strip(match.g2)
                  IN  first_name \o <<" ">> \o surname
             ELSE t

-----------------------------------------------------------------------------
(* extract_director_from_245 *)

\* the alternatives of director_title_pattern, each spelled out in the order
\* the alternation tries it (an optional letter first with it, then without)
director_titles ==
    <<<<"(","r","e","z^","i","s","o","r","s">>,
      <<"(","r","e","z^","i","s","o","r">>,
      <<"(","r","e","z^","i","s","o","r","e">>,
      <<"(","r","e","z^","i","s","o","r">>,
      <<"(","r","e","z^","i","s","o","r","i">>,
      <<"(","r","e","z^","i","s","o","r","e","s">>,
      <<"(","r","e","z^","i","s","o","r","e">>,
      <<"(","r","e","z^",".">>,
      <<"(","ru_r","ru_e","ru_zh","ru_i","ru_s","ru_s","ru_yo","ru_r","ru_a">>,
      <<"(","ru_r","ru_e","ru_zh","ru_i","ru_s","ru_s","ru_yo","ru_r","ru_y">>,
      <<"(","ru_r","ru_e","ru_zh","ru_i","ru_s","ru_s","ru_yo","ru_r","ru_o","ru_m">>,
      <<"(","ru_r","ru_e","ru_zh","ru_i","ru_s","ru_s","ru_yo","ru_r","ru_u">>,
      <<"(","ru_r","ru_e","ru_zh","ru_i","ru_s","ru_s","ru_yo","ru_r","ru_e">>,
      <<"(","ru_r","ru_e","ru_zh","ru_i","ru_s","ru_s","ru_yo","ru_r","ru_o","ru_v">>,
      <<"(","ru_r","ru_e","ru_zh","ru_i","ru_s","ru_s","ru_yo","ru_r","ru_ya","ru_m">>,
      <<"(","ru_r","ru_e","ru_zh","ru_i","ru_s","ru_s","ru_yo","ru_r","ru_ya","ru_m","ru_i">>,
      <<"(","ru_r","ru_e","ru_zh","ru_i","ru_s","ru_s","ru_yo","ru_r","ru_ya","ru_h">>,
      <<"(","ru_r","ru_e","ru_zh","ru_i","ru_s","ru_s","ru_yo","ru_r">>,
      <<"(","ru_r","ru_e","ru_zh","ru_i","ru_s","ru_s","ru_e","ru_r","ru_a">>,
      <<"(","ru_r","ru_e","ru_zh","ru_i","ru_s","ru_s","ru_e","ru_r","ru_y">>,
      <<"(","ru_r","ru_e","ru_zh","ru_i","ru_s","ru_s","ru_e","ru_r","ru_o","ru_m">>,
      <<"(","ru_r","ru_e","ru_zh","ru_i","ru_s","ru_s","ru_e","ru_r","ru_u">>,
      <<"(","ru_r","ru_e","ru_zh","ru_i","ru_s","ru_s","ru_e","ru_r","ru_e">>,
      <<"(","ru_r","ru_e","ru_zh","ru_i","ru_s","ru_s","ru_e","ru_r","ru_o","ru_v">>,
      <<"(","ru_r","ru_e","ru_zh","ru_i","ru_s","ru_s","ru_e","ru_r","ru_ya","ru_m">>,
      <<"(","ru_r","ru_e","ru_zh","ru_i","ru_s","ru_s","ru_e","ru_r","ru_ya","ru_m","ru_i">>,
      <<"(","ru_r","ru_e","ru_zh","ru_i","ru_s","ru_s","ru_e","ru_r","ru_ya","ru_h">>,
      <<"(","ru_r","ru_e","ru_zh","ru_i","ru_s","ru_s","ru_e","ru_r">>>>

\* one alternative at position p, under re.IGNORECASE
title_matches_at(s, p, title) ==
    /\ p + Len(title) - 1 <= Len(s)
    /\ \A k \in 1..Len(title) : lower_char(s[p + k - 1]) = title[k]

\* match.end() of the pattern tried at p (the position after the match), 0
\* when no alternative matches there
title_end_at(s, p) ==
    LET alts == {i \in 1..Len(director_titles) : title_matches_at(s, p, director_titles[i])}
    IN  IF alts = {} THEN 0 ELSE p + Len(director_titles[Min(alts)])

\* re.search(director_title_pattern, text, re.IGNORECASE): match.end(), or 0
RECURSIVE search_director_title(_, _)
search_director_title(s, p) ==
    IF p > Len(s) THEN 0
    ELSE IF title_end_at(s, p) # 0 THEN title_end_at(s, p)
         ELSE search_director_title(s, p + 1)

\* str.split(): the words between runs of whitespace
RECURSIVE split_ws(_)
split_ws(s) ==
    LET t == lstrip(s)
    IN  IF t = <<>> THEN <<>>
        ELSE LET sp == {i \in 1..Len(t) : IsSpace(t[i])}
                 e == IF sp = {} THEN Len(t) + 1 ELSE Min(sp)
             IN  <<SubSeq(t, 1, e - 1)>> \o split_ws(SubSeq(t, e, Len(t)))

\* str.split(c)
RECURSIVE split_char(_, _)
split_char(s, c) ==
    LET p == find(s, c, 1)
    IN  IF p = 0 THEN <<s>>
        ELSE <<SubSeq(s, 1, p - 1)>> \o split_char(SubSeq(s, p + 1, Len(s)), c)

\* sep.join(parts)
RECURSIVE join(_, _)
join(sep, parts) ==
    IF parts = <<>> THEN <<>>
    ELSE IF Len(parts) = 1 THEN parts[1]
         ELSE parts[1] \o sep \o join(sep, Tail(parts))

\* the loop that looks for the first capitalized word; name_start_idx stays
\* 0 (the first word, here 1) when no word is capitalized
name_start_idx(words) ==
    LET caps == {i \in 1..Len(words) : words[i] # <<>> /\ isupper(words[i][1])}
    IN  IF caps = {} THEN 1 ELSE Min(caps)

\* the cleaned, non-empty names of directors_text.split(',')
RECURSIVE clean_directors(_)
clean_directors(parts) ==
    IF parts = <<>> THEN <<>>
    ELSE LET director == collapse_ws(strip(parts[1]))
         IN  (IF director # <<>> THEN <<director>> ELSE <<>>)
             \o clean_directors(Tail(parts))

extract_director_from_245(t) ==
    IF isna(t) \/ t = <<>> THEN NaN
    ELSE LET start_pos == search_director_title(t, 1)
         IN  IF start_pos = 0 THEN NaN
             ELSE LET end_pos == find(t, ")", start_pos)
                  IN  IF end_pos = 0 THEN NaN
                      ELSE LET words == split_ws(strip(SubSeq(t, start_pos, end_pos - 1)))
                               directors_text ==
                                   IF words = <<>> THEN <<>>
                                   ELSE join(<<" ">>, SubSeq(words, name_start_idx(words), Len(words)))
                           IN  IF directors_text = <<>> THEN NaN
                               ELSE LET directors ==
                                            join(<<",", " ">>,
                                                 clean_directors(split_char(directors_text, ",")))
                                    IN  IF directors # <<>> THEN directors ELSE NaN

-----------------------------------------------------------------------------
(* extract_title_from_245, extract_author_from_500, extract_title_from_500,
   extract_publisher_from_500 *)

\* re.search of open ([^close]+) close, the group's bounds: the leftmost
\* opening character whose next closing character is not right after it
RECURSIVE search_delimited(_, _, _, _)
search_delimited(s, open, close, p) ==
    IF p > Len(s) THEN NoMatch
    ELSE IF s[p] = open /\ find(s, close, p + 1) > p + 1
         THEN [found |-> TRUE, g |-> SubSeq(s, p + 1, find(s, close, p + 1) - 1)]
         ELSE search_delimited(s, open, close, p + 1)

\* title_pattern = r'"([^"]+)"'
extract_title_from_245(t) ==
    IF isna(t) \/ t = <<>> THEN NaN
    ELSE LET match == search_delimited(t, "\"", "\"", 1)
         IN  IF match.found THEN strip(match.g) ELSE NaN

\* author_pattern = r'\{([^}]+)\}'
extract_author_from_500(t) ==
    IF isna(t) \/ t = <<>> THEN NaN
    ELSE LET match == search_delimited(t, "{", "}", 1)
         IN  IF match.found
             THEN change_name_pattern(rstrip_chars(strip(match.g), {"."}))
             ELSE NaN

\* title_pattern = r'\}\s*([^/]+?)\s*/' : the lazy group and the \s* around
\* it leave the group the text between the brace and the slash without its
\* outer whitespace (one space when that text is only whitespace)
extract_title_from_500(t) ==
    IF isna(t) \/ t = <<>> THEN NaN
    ELSE LET match == search_delimited(t, "}", "/", 1)
         IN  IF match.found THEN collapse_ws(strip(match.g)) ELSE NaN

\* publisher_pattern = r'/\s*[^:]*:\s*([^,]+)' tried from start position p on
RECURSIVE search_publisher(_, _)
search_publisher(s, p) ==
    IF p > Len(s) THEN NoMatch
    ELSE LET colon == find(s, ":", p + 1)
             m == IF s[p] = "/" /\ colon # 0
                  THEN match_spaces_then_non_commas(s, colon)
                  ELSE NoMatch
         IN  IF m.found THEN m ELSE search_publisher(s, p + 1)

extract_publisher_from_500(t) ==
    IF isna(t) \/ t = <<>> THEN NaN
    ELSE LET match == search_publisher(t, 1)
         IN  IF match.found THEN collapse_ws(strip(match.g)) ELSE NaN

-----------------------------------------------------------------------------
(* module-level lists of clean_data.py *)

\* the compound columns of key_columns the harmonized fields are read from,
\* by MARC tag: AUTORS (100), RAKSTA NOSAUKUMS (245), PRIEKSMETS - ZANRS
\* (655), RECENZETAIS IZDEVUMS (787), RECENZETAIS IZDEVUMS (500), RECENZETA
\* FILMA VAI IZRADE (630), PRIEKSMETS - INSTITUCIJA (610)
key_columns == {"100", "245", "655", "787", "500", "630", "610"}

\* the entries of final_processed_columns that belong to those columns
final_processed_columns ==
    {[name |-> "100_4", tag |-> "100", code |-> "4"],
     [name |-> "100_a", tag |-> "100", code |-> "a"],
     [name |-> "100_c", tag |-> "100", code |-> "c"],
     [name |-> "100_d", tag |-> "100", code |-> "d"],
     [name |-> "245_a", tag |-> "245", code |-> "a"],
     [name |-> "245_b", tag |-> "245", code |-> "b"],
     [name |-> "245_c", tag |-> "245", code |-> "c"],
     [name |-> "787_a", tag |-> "787", code |-> "a"],
     [name |-> "787_t", tag |-> "787", code |-> "t"],
     [name |-> "787_d", tag |-> "787", code |-> "d"],
     [name |-> "500_a", tag |-> "500", code |-> "a"],
     [name |-> "630_a", tag |-> "630", code |-> "a"],
     [name |-> "630_g", tag |-> "630", code |-> "g"],
     [name |-> "630_f", tag |-> "630", code |-> "f"],
     [name |-> "655_a", tag |-> "655", code |-> "a"],
     [name |-> "655_x", tag |-> "655", code |-> "x"],
     [name |-> "610_a", tag |-> "610", code |-> "a"],
     [name |-> "610_g", tag |-> "610", code |-> "g"]}

AUTORS_100_4_values == {<<"a","u","t">>, <<"r","e","v">>}

\* "recenzija"
kw_recenzija ==
    <<"r","e","c","e","n","z","i","j","a">>

\* "gra-matu apskati"
kw_gramatu_apskati ==
    <<"g","r","a-","m","a","t","u"," ","a","p","s","k","a","t","i">>

\* "ve-sture un kritika"
kw_vesture_un_kritika ==
    <<"v","e-","s","t","u","r","e"," ","u","n"," ","k","r","i","t","i","k","a">>

\* "Literatu-ras recenzijas"
Literaturas_recenzijas ==
    <<"L","i","t","e","r","a","t","u-","r","a","s"," ","r","e","c","e","n","z","i","j","a","s">>

\* "Literatu-ra"
Literatura ==
    <<"L","i","t","e","r","a","t","u-","r","a">>

\* "Latvijas Naciona-la- opera"
Latvijas_Nacionala_opera ==
    <<"L","a","t","v","i","j","a","s"," ","N","a","c","i","o","n","a-","l","a-"," ","o","p","e","r","a">>

\* "Latvijas Naciona-la- opera un balets"
Latvijas_Nacionala_opera_un_balets ==
    <<"L","a","t","v","i","j","a","s"," ","N","a","c","i","o","n","a-","l","a-"," ","o","p","e","r","a"," ","u","n"," ","b","a","l","e","t","s">>

\* "Author type not 'aut' or 'rev'"
reason_author ==
    <<"A","u","t","h","o","r"," ","t","y","p","e"," ","n","o","t"," ","'","a","u","t","'"," ","o","r"," ","'","r","e","v","'">>

\* "Not a review, book review, or history/criticism"
reason_review ==
    <<"N","o","t"," ","a"," ","r","e","v","i","e","w",","," ","b","o","o","k"," ","r","e","v","i","e","w",","," ","o","r"," ","h","i","s","t","o","r","y","/","c","r","i","t","i","c","i","s","m">>

literature_categories ==
    {<<"G","r","a-","m","a","t","u"," ","a","p","s","k","a","t","i">>,
     <<"L","a","t","g","a","l","i","e","s^","u"," ","d","z","e","j","a">>,
     <<"L","a","t","v","i","e","s^","u"," ","b","e-","r","n","u"," ","d","z","e","j","a">>,
     <<"K","r","i","e","v","u"," ","d","z","e","j","a">>,
     <<"L","a","t","v","i","e","s^","u"," ","j","a","u","n","a","t","n","e","s"," ","p","r","o","z","a">>,
     <<"L","a","t","v","i","e","s^","u"," ","f","a","n","t","a","s","t","i","s","k","a-"," ","p","r","o","z","a">>,
     <<"I","g","a","u","n,","u"," ","d","z","e","j","a">>,
     <<"A","n","g","l,","u"," ","s","p","i","e","g","u"," ","r","o","m","a-","n","i">>,
     <<"D","a-","n,","u"," ","r","o","m","a-","n","i">>,
     <<"A","m","e","r","i","k","a-","n,","u"," ","f","a","n","t","a","s","t","i","s","k","a-"," ","p","r","o","z","a">>,
     <<"Z","v","i","e","d","r","u"," ","d","e","t","e","k","t","i-","v","r","o","m","a-","n","i">>,
     <<"C^","e","h","u"," ","r","o","m","a-","n","i">>,
     <<"L","a","t","v","i","e","s^","u"," ","d","i","e","n","a","s","g","r","a-","m","a","t","u"," ","p","r","o","z","a">>,
     <<"V","a-","c","u"," ","d","z","e","j","a">>,
     <<"L","a","t","v","i","e","s^","u"," ","z","i","n","a-","t","n","i","s","k","a-"," ","f","a","n","t","a","s","t","i","k","a">>,
     <<"S","o","m","u"," ","d","z","e","j","a">>,
     <<"F","r","a","n","c^","u"," ","e","s","e","j","a","s">>,
     <<"K","a","t","a","l","a-","n,","u"," ","r","o","m","a-","n","i">>,
     <<"G","r","i","e","k,","u"," ","d","z","e","j","a">>,
     <<"D","i","e","n","v","i","d","a","f","r","i","k","a-","n,","u"," ","r","o","m","a-","n","i"," ","(","a","n","g","l,","u"," ","v","a","l","o","d","a",")">>,
     <<"C^","e","h","u"," ","s","t","a-","s","t","i">>,
     <<"G","r","i","e","k,","u"," ","r","o","m","a-","n","i">>,
     <<"L","a","t","i-","n,","u"," ","d","z","e","j","a">>,
     <<"Z","v","i","e","d","r","u"," ","j","a","u","n","a","t","n","e","s"," ","p","r","o","z","a">>,
     <<"I","t","a-","l","i","e","s^","u"," ","e","s","e","j","a","s">>,
     <<"L","a","t","v","i","e","s^","u"," ","s","k","o","l","a","s"," ","p","r","o","z","a">>,
     <<"K","r","i","e","v","u"," ","d","e","t","e","k","t","i-","v","r","o","m","a-","n","i">>,
     <<"F","r","a","n","c^","u"," ","d","e","t","e","k","t","i-","v","r","o","m","a-","n","i">>,
     <<"A","u","s","t","r","i","e","s^","u"," ","d","z","e","j","a">>,
     <<"C^","i","g","a-","n","u"," ","d","z","e","j","a">>,
     <<"S","p","a-","n,","u"," ","d","z","e","j","a">>,
     <<"A","r","m","e-","n,","u"," ","v","e-","s","t","u","r","i","s","k","a-"," ","p","r","o","z","a">>,
     <<"K","a","t","o","l,","u"," ","h","i","m","n","a","s"," ","u","n"," ","d","z","i","e","s","m","a","s">>,
     <<"F","r","a","n","c^","u"," ","d","z","e","j","a">>,
     <<"I","g","a","u","n,","u"," ","r","o","m","a-","n","i">>,
     <<"K","r","i","e","v","u"," ","z","i","n","a-","t","n","i","s","k","a-"," ","f","a","n","t","a","s","t","i","k","a">>,
     <<"M","i-","l","a","s"," ","d","z","e","j","a">>,
     <<"B","u","l","g","a-","r","u"," ","d","z","e","j","a">>,
     <<"A","z","e","r","b","a","i","d","z^","a-","n,","u"," ","d","z","e","j","a">>,
     <<"Z","v","i","e","d","r","u"," ","b","e-","r","n","u"," ","d","z","e","j","a">>,
     <<"Z","v","i","e","d","r","u"," ","r","o","m","a-","n","i">>,
     <<"P","o","l,","u"," ","f","a","n","t","a","s","t","i","s","k","a-"," ","p","r","o","z","a">>,
     <<"H","o","l","a","n","d","i","e","s^","u"," ","r","o","m","a-","n","i">>,
     <<"L","a","t","g","a","l","i","e","s^","u"," ","b","e-","r","n","u"," ","d","z","e","j","a">>,
     <<"K","r","i","e","v","u"," ","Z","i","e","m","a","s","s","v","e-","t","k","u"," ","s","t","a-","s","t","i">>,
     <<"I","g","a","u","n,","u"," ","e","p","i","s","k","a-"," ","d","z","e","j","a">>,
     <<"G","r","i","e","k,","u"," ","d","z","e","j","a",","," ","h","e","l","l","e-","n","i","s","m","a">>,
     <<"F","r","a","n","c^","u"," ","p","i","e","d","z","i-","v","o","j","u","m","u"," ","p","r","o","z","a">>,
     <<"K","r","i","e","v","u"," ","b","e-","r","n","u"," ","d","z","e","j","a">>,
     <<"C^","e","h","u"," ","d","z","e","j","a">>,
     <<"L","a","t","v","i","e","s^","u"," ","r","o","m","a","n","t","i","s","k","a-"," ","p","r","o","z","a">>,
     <<"V","a-","c","u"," ","p","r","o","z","a">>,
     <<"A","m","e","r","i","k","a-","n,","u"," ","l","u","g","a","s">>}

OUTPUT_PATH == "recenzijas_clean.csv"

FILTERED_OUT_PATH == "recenzijas_filtered_out.csv"

-----------------------------------------------------------------------------
(* DataFrame primitives *)

\* Series.fillna(other), cell by cell
fillna(v, other) == IF isna(v) THEN other ELSE v

\* Series.replace("", None), cell by cell (pandas 1.4 and later, where an
\* explicit None is the replacement value)
replace_empty(v) == IF v = <<>> THEN NaN ELSE v

\* df[mask], the rows whose mask is true in the order of df, is SelectSeq;
\* Series.apply and DataFrame.assign are a function over the row positions
\* (<<>> \o f makes it a sequence again).

-----------------------------------------------------------------------------
(* expand_marc_columns and the column selection *)

\* all_codes: the subfield codes seen anywhere in one compound column
all_codes(df, tag) ==
    UNION {DOMAIN parse_marc_subfields(df[i][tag]) : i \in 1..Len(df)}

\* the new columns that are also in final_columns_all
created_columns(df) ==
    {e.name : e \in {x \in final_processed_columns : x.code \in all_codes(df, x.tag)}}

entry_of(name) == CHOOSE e \in final_processed_columns : e.name = name

\* one row of simplified_df[final_columns_all]
expanded_row(row, cols) ==
    [c \in cols \cup {"idx"} |->
        IF c = "idx" THEN row["idx"]
        ELSE get(parse_marc_subfields(row[entry_of(c).tag]), entry_of(c).code)]

-----------------------------------------------------------------------------
(* Filtering *)

author_filter(row) == row["100_4"] \in AUTORS_100_4_values

ir_recenzija(row) == contains(lower(fillna(row["655_a"], <<>>)), kw_recenzija)

ir_gramata(row) == contains(lower(fillna(row["655_a"], <<>>)), kw_gramatu_apskati)

ir_vesture(row) == contains(lower(fillna(row["655_x"], <<>>)), kw_vesture_un_kritika)

review_filter(row) == ir_recenzija(row) \/ ir_vesture(row) \/ ir_gramata(row)

not_author_filter(row) == ~author_filter(row)

not_review_filter(row) == ~review_filter(row)

\* the mutant: a row whose author type is absent is compared as NaN and
\* lands in neither group
rows_filtered_out_by_author_nan_lost(df) ==
    SelectSeq(df, LAMBDA row : notna(row["100_4"]) /\ ~author_filter(row))

\* working_df[~author_filter]
rows_filtered_out_by_author(df) == SelectSeq(df, not_author_filter)

assign_filter_reason(df, reason) ==
    <<>> \o [i \in 1..Len(df) |-> SetItem(df[i], "filter_reason", reason)]

\* the mutant: the review group is put first
concat_filtered_out_review_first(by_author, by_review) ==
    assign_filter_reason(by_review, reason_review)
    \o assign_filter_reason(by_author, reason_author)

\* pd.concat([...], ignore_index=True); the model keeps "idx", the position
\* in the input, where pandas renumbers the index
concat_filtered_out(by_author, by_review) ==
    assign_filter_reason(by_author, reason_author)
    \o assign_filter_reason(by_review, reason_review)

-----------------------------------------------------------------------------
(* Processing: the chain of assign calls on final_df *)

\* lambda val: change_name_pattern(val) if pd.notna(val) and val != "" else None
name_or_none(val) ==
    IF notna(val) /\ val # <<>> THEN change_name_pattern(val) ELSE NaN

\* lambda val: val if pd.notna(val) and val != "" else None
value_or_none(val) == IF notna(val) /\ val # <<>> THEN val ELSE NaN

\* the mutant: only the full stops at the end of the value are removed
remove_trailing_full_stops(val) ==
    IF isna(val) THEN NaN ELSE strip(rstrip_chars(val, {"."}))

\* .str.replace(".", "").str.strip()
remove_full_stops(val) == IF isna(val) THEN NaN ELSE strip(remove_char(val, "."))

\* the mutant: the legacy (500)_a author is preferred to the (787)_a author
author_787_prefers_500(val, author_500) == fillna(author_500, name_or_none(val))

\* "(787)_author"
author_787(val, author_500) == fillna(name_or_none(val), author_500)

\* "publicetajs_vai_institucija", the colon fix
between_colon_and_comma(x) ==
    IF notna(x) /\ contains(x, <<":">>)
    THEN strip(split_char(split_char(x, ":")[2], ",")[1])
    ELSE x

\* .str.split(":").str[0].str.strip()
before_colon(val) == IF isna(val) THEN NaN ELSE strip(split_char(val, ":")[1])

\* the mutant: the label of the comment above the assignment ("Literatura")
recenzijas_tips_comment_label(val) ==
    IF val \in literature_categories THEN Literatura ELSE val

\* "recenzijas_tips"
recenzijas_tips(val) ==
    IF val \in literature_categories THEN Literaturas_recenzijas ELSE val

\* the columns the assign calls add and keep
harmonized_columns ==
    {"visas_personas", "245_ab", "recenzeta_darba_autors", "recenzetais_darbs",
     "publicetajs_vai_institucija", "recenzijas_tips"}

\* one row of final_df through the whole chain; the helper columns
\* (245)_director ... (787)_publisher are dropped at its end
process_row(row) ==
    LET autors_100_a == name_or_none(row["100_a"])
        visas_personas ==
            IF notna(autors_100_a) /\ autors_100_a # <<>> THEN <<autors_100_a>> ELSE <<>>
        nosaukums_245_ab ==
            fillna(row["245_a"], <<>>) \o <<" ">> \o fillna(row["245_b"], <<>>)
        zanrs_655_a == remove_full_stops(row["655_a"])
        institucija_610_a_0 == remove_full_stops(row["610_a"])
        nosaukums_245_a ==
            strip(rstrip_chars(fillna(row["245_a"], <<>>), {":", " ", "/"}))
        institucija_610_a ==
            IF institucija_610_a_0 = Latvijas_Nacionala_opera
            THEN Latvijas_Nacionala_opera_un_balets
            ELSE institucija_610_a_0
        director_245 == extract_director_from_245(row["245_b"])
        title_245 == extract_title_from_245(row["245_b"])
        author_500 == extract_author_from_500(row["500_a"])
        title_500 == extract_title_from_500(row["500_a"])
        publisher_500 == extract_publisher_from_500(row["500_a"])
        author_787_ == author_787(row["787_a"], author_500)
        title_787 == fillna(value_or_none(row["787_t"]), title_500)
        publisher_787 == fillna(value_or_none(row["787_d"]), publisher_500)
        recenzeta_darba_autors == fillna(replace_empty(author_787_), director_245)
        recenzetais_darbs_0 == fillna(replace_empty(title_787), title_245)
        publicetajs_0 == fillna(replace_empty(publisher_787), institucija_610_a)
        publicetajs_vai_institucija == between_colon_and_comma(publicetajs_0)
        recenzetais_darbs ==
            before_colon(fillna(recenzetais_darbs_0, row["630_a"]))
    IN  [c \in (DOMAIN row) \cup harmonized_columns |->
            CASE c = "100_a" -> autors_100_a
              [] c = "visas_personas" -> visas_personas
              [] c = "245_ab" -> nosaukums_245_ab
              [] c = "655_a" -> zanrs_655_a
              [] c = "610_a" -> institucija_610_a
              [] c = "245_a" -> nosaukums_245_a
              [] c = "recenzeta_darba_autors" -> recenzeta_darba_autors
              [] c = "recenzetais_darbs" -> recenzetais_darbs
              [] c = "publicetajs_vai_institucija" -> publicetajs_vai_institucija
              [] c = "recenzijas_tips" -> recenzijas_tips(zanrs_655_a)
              [] OTHER -> row[c]]

\* the columns the filters read, and the columns the assign calls read
columns_read_by_filters == {"100_4", "655_a", "655_x"}

columns_read_by_processing ==
    {"100_a", "245_a", "245_b", "655_a", "610_a", "500_a", "787_a", "787_t",
     "787_d", "630_a"}

-----------------------------------------------------------------------------
(* bounded sets of strings *)

RECURSIVE Flatten(_)
Flatten(ss) == IF ss = <<>> THEN <<>> ELSE ss[1] \o Flatten(Tail(ss))

SeqsUpTo(S, n) == UNION {[1..k -> S] : k \in 0..n}

-----------------------------------------------------------------------------
(* The helper functions, each called once on an argument drawn from a       *)
(* bounded set of strings.                                                  *)

IdleMain ==
    /\ pc = "idle"
    /\ data_df = <<>>
    /\ columns = {}
    /\ working_df = <<>>
    /\ final_df = <<>>
    /\ filtered_out_by_author = <<>>
    /\ filtered_out_by_review = <<>>
    /\ all_filtered_out = <<>>
    /\ written = {}

InitText(inputs) ==
    /\ text \in inputs
    /\ matches = <<>>
    /\ out = NaN
    /\ tpc = "input"
    /\ IdleMain

\* number of pieces a compound cell is built from
MaxPieces == 5

ParsePieces == {<<"$", "$", "a">>, <<"$", "$", "b">>, <<"$">>, <<"X">>, <<"Y">>, <<" ">>}

ParseInputs ==
    {Flatten(ps) : ps \in SeqsUpTo(ParsePieces, MaxPieces)} \cup {NaN, <<"N", "A">>}

CallParse ==
    /\ tpc = "input"
    /\ matches' = IF isna(text) \/ text = <<"N", "A">> THEN <<>>
                  ELSE findall_subfields(text, 1)
    /\ out' = parse_marc_subfields(text)
    /\ tpc' = "parse_marc_subfields"
    /\ UNCHANGED <<text, mainVars>>

InitParse == InitText(ParseInputs)

NextParse == CallParse

SpecParse == InitParse /\ [][NextParse]_vars

\* length of a name given to change_name_pattern
MaxNameLen == 5

NameInputs == SeqsUpTo({"A", "b", ",", " "}, MaxNameLen) \cup {NaN}

CallName ==
    /\ tpc = "input"
    /\ out' = change_name_pattern(text)
    /\ tpc' = "change_name_pattern"
    /\ UNCHANGED <<text, matches, mainVars>>

InitName == InitText(NameInputs)

NextName == CallName

SpecName == InitName /\ [][NextName]_vars

\* length of the text between the director title and the closing parenthesis
MaxMid == 3

DirPrefixes == {<<>>, <<"x", " ">>}

\* nothing, a bare parenthesis, "(rez^.", "(Rez^isore", "(rez^isori",
\* the Cyrillic "(rezhissyor" and "(REZHISSERY"
DirMarkers ==
    {<<>>, <<"(">>, <<"(","r","e","z^",".">>,
     <<"(","R","e","z^","i","s","o","r","e">>,
     <<"(","r","e","z^","i","s","o","r","i">>,
     <<"(","ru_r","ru_e","ru_zh","ru_i","ru_s","ru_s","ru_yo","ru_r">>,
     <<"(","RU_R","RU_E","RU_ZH","RU_I","RU_S","RU_S","RU_E","RU_R","RU_Y">>}

DirInputs ==
    {pre \o mark \o mid \o close :
        pre \in DirPrefixes, mark \in DirMarkers,
        mid \in SeqsUpTo({" ", "u", "A", ","}, MaxMid),
        close \in {<<>>, <<")">>}} \cup {NaN}

CallDirector ==
    /\ tpc = "input"
    /\ out' = extract_director_from_245(text)
    /\ tpc' = "extract_director_from_245"
    /\ UNCHANGED <<text, matches, mainVars>>

InitDirector == InitText(DirInputs)

NextDirector == CallDirector

SpecDirector == InitDirector /\ [][NextDirector]_vars

\* length of a text given to extract_publisher_from_500
MaxPubLen == 5

PubInputs == SeqsUpTo({"/", ":", ",", " ", "P"}, MaxPubLen) \cup {NaN}

CallPublisher ==
    /\ tpc = "input"
    /\ out' = extract_publisher_from_500(text)
    /\ tpc' = "extract_publisher_from_500"
    /\ UNCHANGED <<text, matches, mainVars>>

InitPublisher == InitText(PubInputs)

NextPublisher == CallPublisher

SpecPublisher == InitPublisher /\ [][NextPublisher]_vars

-----------------------------------------------------------------------------
(* The __main__ script: load, expand, filter, process, save *)

\* number of rows of the input table
MaxRows == 2

\* $$aB, A$$4aut
cell_100_aut ==
    <<"$","$","a","B",","," ","A","$","$","4","a","u","t">>

\* $$aB, A$$4rev
cell_100_rev ==
    <<"$","$","a","B",","," ","A","$","$","4","r","e","v">>

\* $$4edt
cell_100_edt ==
    <<"$","$","4","e","d","t">>

\* $$aTi :$$b'F' (rez^. J B)
cell_245_film ==
    <<"$","$","a","T","i"," ",":","$","$","b","\"","F","\""," ","(","r","e","z^","."," ","J"," ","B",")">>

\* $$aTi
cell_245_plain ==
    <<"$","$","a","T","i">>

\* $$aRecenzijas.$$xVe-sture un kritika
cell_655_review ==
    <<"$","$","a","R","e","c","e","n","z","i","j","a","s",".","$","$","x","V","e-","s","t","u","r","e"," ","u","n"," ","k","r","i","t","i","k","a">>

\* $$aGra-matu apskati.
cell_655_survey ==
    <<"$","$","a","G","r","a-","m","a","t","u"," ","a","p","s","k","a","t","i",".">>

\* $$aKrievu dzeja.$$xVe-sture un kritika.
cell_655_poetry ==
    <<"$","$","a","K","r","i","e","v","u"," ","d","z","e","j","a",".","$","$","x","V","e-","s","t","u","r","e"," ","u","n"," ","k","r","i","t","i","k","a",".">>

\* $$xVe-sture un kritika
cell_655_no_genre ==
    <<"$","$","x","V","e-","s","t","u","r","e"," ","u","n"," ","k","r","i","t","i","k","a">>

\* $$aRaksti.
cell_655_article ==
    <<"$","$","a","R","a","k","s","t","i",".">>

\* $$aK, P$$tT: s$$dR : D, 2000
cell_787_full ==
    <<"$","$","a","K",","," ","P","$","$","t","T",":"," ","s","$","$","d","R"," ",":"," ","D",","," ","2","0","0","0">>

\* $$aKP
cell_787_author_only ==
    <<"$","$","a","K","P">>

\* $$a{L, M.} T2 / R : Pub, 2000
cell_500_full ==
    <<"$","$","a","{","L",","," ","M",".","}"," ","T","2"," ","/"," ","R"," ",":"," ","P","u","b",","," ","2","0","0","0">>

\* $$aFilm: x
cell_630_film ==
    <<"$","$","a","F","i","l","m",":"," ","x">>

\* $$aInst.
cell_610_inst ==
    <<"$","$","a","I","n","s","t",".">>

\* $$aTi$$b' ' (a subtitle whose quotes hold a blank)
cell_245_blank_quotes ==
    <<"$","$","a","T","i","$","$","b","\""," ","\"">>

\* $$aKino. Recenzijas.
cell_655_interior ==
    <<"$","$","a","K","i","n","o","."," ","R","e","c","e","n","z","i","j","a","s",".">>

\* $$aK, P$$tT$$dR : D: E, 2000
cell_787_two_colons ==
    <<"$","$","a","K",","," ","P","$","$","t","T","$","$","d","R"," ",":"," ","D",":"," ","E",","," ","2","0","0","0">>

\* $$aA. B.
cell_610_interior ==
    <<"$","$","a","A","."," ","B",".">>

\* $$aLatvijas Naciona-la- opera.
cell_610_opera ==
    <<"$","$","a","L","a","t","v","i","j","a","s"," ","N","a","c","i","o","n","a-","l","a-"," ","o","p","e","r","a",".">>

RawRow(c100, c245, c655, c787, c500, c630, c610) ==
    [tag \in key_columns |->
        CASE tag = "100" -> c100
          [] tag = "245" -> c245
          [] tag = "655" -> c655
          [] tag = "787" -> c787
          [] tag = "500" -> c500
          [] tag = "630" -> c630
          [] tag = "610" -> c610]

\* rows that differ in what the two filters read (present, not allowed and
\* absent author type; review, non-review and absent genre)
FilterRows ==
    {RawRow(c100, cell_245_film, c655, cell_787_full, cell_500_full,
            cell_630_film, cell_610_inst) :
        c100 \in {cell_100_aut, cell_100_edt, NaN},
        c655 \in {cell_655_review, cell_655_article, NaN}}

\* rows that differ in the genre the review category is mapped from
GenreRows ==
    {RawRow(cell_100_rev, cell_245_film, c655, cell_787_full, cell_500_full,
            cell_630_film, cell_610_inst) :
        c655 \in {cell_655_survey, cell_655_poetry, cell_655_no_genre}}

\* rows that differ in the sources of the reviewed author, title, publisher
HarmonizeRows ==
    {RawRow(cell_100_aut, c245, cell_655_review, c787, c500,
            cell_630_film, cell_610_inst) :
        c245 \in {cell_245_film, cell_245_plain},
        c787 \in {cell_787_full, cell_787_author_only, NaN},
        c500 \in {cell_500_full, NaN}}

\* rows with punctuation inside the values the last assign calls rewrite: a
\* second colon before the publisher's comma (with the institution that has
\* an alias), a blank quoted title with no other title and no institution,
\* and periods inside the genre and the institution
PunctuationRows ==
    {RawRow(cell_100_aut, cell_245_plain, cell_655_review, cell_787_two_colons,
            NaN, cell_630_film, cell_610_opera),
     RawRow(cell_100_aut, cell_245_blank_quotes, cell_655_review,
            cell_787_author_only, NaN, cell_630_film, NaN),
     RawRow(cell_100_aut, cell_245_plain, cell_655_interior, cell_787_full,
            NaN, cell_630_film, cell_610_interior)}

RowPool == FilterRows \cup GenreRows \cup HarmonizeRows \cup PunctuationRows

Tables == SeqsUpTo(RowPool, MaxRows)

IdleText ==
    /\ text = NaN
    /\ matches = <<>>
    /\ out = NaN
    /\ tpc = "idle"

Init ==
    /\ pc = "start"
    /\ data_df = <<>>
    /\ columns = {}
    /\ working_df = <<>>
    /\ final_df = <<>>
    /\ filtered_out_by_author = <<>>
    /\ filtered_out_by_review = <<>>
    /\ all_filtered_out = <<>>
    /\ written = {}
    /\ IdleText

\* pd.read_csv(...).drop(columns=columns_to_remove)
Load ==
    /\ pc = "start"
    /\ \E table \in Tables :
          data_df' = <<>> \o [i \in 1..Len(table) |->
                         [c \in key_columns \cup {"idx"} |->
                             IF c = "idx" THEN i ELSE table[i][c]]]
    /\ pc' = "loaded"
    /\ UNCHANGED <<columns, working_df, final_df, filtered_out_by_author,
                   filtered_out_by_review, all_filtered_out, written, textVars>>

\* the input file is absent or unreadable, or lacks a column to remove
LoadFails ==
    /\ pc = "start"
    /\ pc' = "failed"
    /\ UNCHANGED <<data_df, columns, working_df, final_df, filtered_out_by_author,
                   filtered_out_by_review, all_filtered_out, written, textVars>>

\* the loop over key_columns, the column selection and working_df
Expand ==
    /\ pc = "loaded"
    /\ columns' = created_columns(data_df)
    /\ working_df' = <<>> \o [i \in 1..Len(data_df) |-> expanded_row(data_df[i], columns')]
    /\ pc' = "expanded"
    /\ UNCHANGED <<data_df, final_df, filtered_out_by_author,
                   filtered_out_by_review, all_filtered_out, written, textVars>>

\* the two filters and the concatenation of what they reject
Filter ==
    /\ pc = "expanded"
    /\ columns_read_by_filters \subseteq columns
    /\ LET filtered_by_author == SelectSeq(working_df, author_filter)
       IN  /\ filtered_out_by_author' = rows_filtered_out_by_author(working_df)
           /\ final_df' = SelectSeq(filtered_by_author, review_filter)
           /\ filtered_out_by_review' = SelectSeq(filtered_by_author, not_review_filter)
    /\ all_filtered_out' = concat_filtered_out(filtered_out_by_author', filtered_out_by_review')
    /\ pc' = "filtered"
    /\ UNCHANGED <<data_df, columns, working_df, written, textVars>>

\* KeyError: no row of the table has a subfield the filters read
FilterFails ==
    /\ pc = "expanded"
    /\ ~(columns_read_by_filters \subseteq columns)
    /\ pc' = "failed"
    /\ UNCHANGED <<data_df, columns, working_df, final_df, filtered_out_by_author,
                   filtered_out_by_review, all_filtered_out, written, textVars>>

\* the chain of assign calls and the drop of the helper columns
Process ==
    /\ pc = "filtered"
    /\ columns_read_by_processing \subseteq columns
    /\ final_df' = <<>> \o [i \in 1..Len(final_df) |-> process_row(final_df[i])]
    /\ pc' = "processed"
    /\ UNCHANGED <<data_df, columns, working_df, filtered_out_by_author,
                   filtered_out_by_review, all_filtered_out, written, textVars>>

\* KeyError: no row of the table has a subfield the assign calls read
ProcessFails ==
    /\ pc = "filtered"
    /\ ~(columns_read_by_processing \subseteq columns)
    /\ pc' = "failed"
    /\ UNCHANGED <<data_df, columns, working_df, final_df, filtered_out_by_author,
                   filtered_out_by_review, all_filtered_out, written, textVars>>

\* final_df.to_csv(OUTPUT_PATH, ...)
SaveClean ==
    /\ pc = "processed"
    /\ written' = written \cup {OUTPUT_PATH}
    /\ pc' = "saved_clean"
    /\ UNCHANGED <<data_df, columns, working_df, final_df, filtered_out_by_author,
                   filtered_out_by_review, all_filtered_out, textVars>>

\* to_csv raises (the directory is missing, the disk is full, ...)
SaveCleanFails ==
    /\ pc = "processed"
    /\ pc' = "failed"
    /\ UNCHANGED <<data_df, columns, working_df, final_df, filtered_out_by_author,
                   filtered_out_by_review, all_filtered_out, written, textVars>>

\* all_filtered_out.to_csv(FILTERED_OUT_PATH, ...)
SaveFilteredOut ==
    /\ pc = "saved_clean"
    /\ written' = written \cup {FILTERED_OUT_PATH}
    /\ pc' = "done"
    /\ UNCHANGED <<data_df, columns, working_df, final_df, filtered_out_by_author,
                   filtered_out_by_review, all_filtered_out, textVars>>

SaveFilteredOutFails ==
    /\ pc = "saved_clean"
    /\ pc' = "failed"
    /\ UNCHANGED <<data_df, columns, working_df, final_df, filtered_out_by_author,
                   filtered_out_by_review, all_filtered_out, written, textVars>>

Next ==
    \/ Load
    \/ LoadFails
    \/ Expand
    \/ Filter
    \/ FilterFails
    \/ Process
    \/ ProcessFails
    \/ SaveClean
    \/ SaveCleanFails
    \/ SaveFilteredOut
    \/ SaveFilteredOutFails

Spec == Init /\ [][Next]_vars

-----------------------------------------------------------------------------
(* Claims about the helper functions *)

\* position of the next two-character marker "$$" at or after from, or
\* Len(s)+1
NextMarker(s, from) ==
    LET ms == {j \in from..(Len(s) - 1) : s[j] = "$" /\ s[j + 1] = "$"}
    IN  IF ms = {} THEN Len(s) + 1 ELSE Min(ms)

\* C4: the content of every parsed segment is all the text from just after
\* its code character up to the next "$$" marker or the end of the string,
\* trimmed; a single "$" neither ends the segment nor loses text.
C4_SegmentRunsToNextMarker ==
    tpc = "parse_marc_subfields" =>
        \A i \in 1..Len(matches) :
            strip(matches[i].content)
                = strip(SubSeq(text, matches[i].pos + 3,
                               NextMarker(text, matches[i].pos + 3) - 1))

\* the occurrences of code c whose trimmed content is not empty
NonEmptyOccurrences(c) ==
    {i \in 1..Len(matches) : matches[i].code = c /\ strip(matches[i].content) # <<>>}

\* C5: a code is mapped to the content of its last occurrence; occurrences
\* whose trimmed content is empty are dropped and overwrite nothing.
C5_LastOccurrenceWins ==
    tpc = "parse_marc_subfields" =>
        /\ \A c \in CodeChars :
              IF NonEmptyOccurrences(c) = {}
              THEN c \notin DOMAIN out
              ELSE /\ c \in DOMAIN out
                   /\ out[c] = strip(matches[Max(NonEmptyOccurrences(c))].content)
        /\ DOMAIN out \subseteq CodeChars

\* a code occurs three times: two different non-empty contents, then an
\* empty one, and the second content is the value
C5_Witness ==
    /\ tpc = "parse_marc_subfields"
    /\ \E i, j, k \in 1..Len(matches) :
          /\ i < j /\ j < k
          /\ matches[i].code = matches[j].code
          /\ matches[j].code = matches[k].code
          /\ strip(matches[i].content) # <<>>
          /\ strip(matches[j].content) # <<>>
          /\ strip(matches[i].content) # strip(matches[j].content)
          /\ strip(matches[k].content) = <<>>
          /\ out[matches[i].code] = strip(matches[j].content)

\* "given name, space, surname" with the first comma of t as the separator
SplitAtFirstComma(t) ==
    LET c == find(t, ",", 1)
    IN  strip(SubSeq(t, c + 1, RunEnd(t, ",", c + 1) - 1)) \o <<" ">>
        \o strip(SubSeq(t, 1, c - 1))

HasComma(t) == notna(t) /\ find(t, ",", 1) # 0

\* C7 as stated: whenever the input holds a comma the first comma is the
\* separator; without a comma, or absent or empty, the input is returned
\* unchanged.
C7_FirstCommaAlwaysSeparates ==
    tpc = "change_name_pattern" =>
        IF HasComma(text) THEN out = SplitAtFirstComma(text) ELSE out = text

\* the trimmed input has text before its first comma, and a character other
\* than a comma right after it
FirstCommaHasBothSides(t) ==
    LET s == strip(t)
        c == find(s, ",", 1)
    IN  c > 1 /\ c < Len(s) /\ s[c + 1] # ","

\* C7 amended: the first comma is the separator when the trimmed input has
\* at least one character before its first comma and a character other than
\* a comma directly after it; without a comma, or absent or empty, the input
\* is returned unchanged.
C7_FirstCommaSeparates ==
    tpc = "change_name_pattern" =>
        /\ (HasComma(text) /\ FirstCommaHasBothSides(text)) => out = SplitAtFirstComma(text)
        /\ ~HasComma(text) => out = text

\* an input with two commas and text after the second, split at the first
C7_Witness ==
    /\ tpc = "change_name_pattern"
    /\ HasComma(text)
    /\ FirstCommaHasBothSides(text)
    /\ LET c2 == find(text, ",", find(text, ",", 1) + 1)
       IN  c2 # 0 /\ strip(SubSeq(text, c2 + 1, Len(text))) # <<>>
    /\ out = SplitAtFirstComma(text)

\* C8: the director extractor returns absent when the text has no opening
\* marker with a role title, no closing parenthesis after the title, or no
\* word beginning with an upper-case letter between the two.
C8_AbsentWithoutNameWord ==
    tpc = "extract_director_from_245" =>
        LET start_pos == IF isna(text) THEN 0 ELSE search_director_title(text, 1)
            end_pos == IF start_pos = 0 THEN 0 ELSE find(text, ")", start_pos)
            words == IF end_pos = 0 THEN <<>>
                     ELSE split_ws(SubSeq(text, start_pos, end_pos - 1))
            NoNameWord == \A i \in 1..Len(words) : ~isupper(words[i][1])
        IN  (start_pos = 0 \/ end_pos = 0 \/ NoNameWord) => out = NaN

\* C9: the publisher extractor returns a value only when a "/", a ":" after
\* it and a "," after that colon are all present, and the value is then the
\* whitespace-normalized text between that colon and that comma.
C9_ValueOnlyWithFullSequence ==
    tpc = "extract_publisher_from_500" =>
        LET slash == IF isna(text) THEN 0 ELSE find(text, "/", 1)
            colon == IF slash = 0 THEN 0 ELSE find(text, ":", slash + 1)
            comma == IF colon = 0 THEN 0 ELSE find(text, ",", colon + 1)
        IN  out # NaN =>
                /\ comma # 0
                /\ out = collapse_ws(strip(SubSeq(text, colon + 1, comma - 1)))

-----------------------------------------------------------------------------
(* Claims about the pipeline *)

Filtered == pc \in {"filtered", "processed", "saved_clean", "done"}

Processed == pc \in {"processed", "saved_clean", "done"}

\* how many rows of df come from input position i
Occurrences(df, i) == Cardinality({k \in 1..Len(df) : df[k]["idx"] = i})

\* C1: after the two filters every input row is in exactly one of the kept
\* and the rejected table, so the two row counts add up to the input's; rows
\* whose author-type or genre cell is absent included.
C1_FilterPartitionsRows ==
    Filtered =>
        /\ \A i \in 1..Len(data_df) :
              Occurrences(final_df, i) + Occurrences(all_filtered_out, i) = 1
        /\ Len(final_df) + Len(all_filtered_out) = Len(data_df)

\* a row without author type and a row without genre are both rejected
C1_Witness ==
    /\ pc = "filtered"
    /\ \E k \in 1..Len(filtered_out_by_author) : isna(filtered_out_by_author[k]["100_4"])
    /\ \E k \in 1..Len(filtered_out_by_review) : isna(filtered_out_by_review[k]["655_a"])
    /\ Len(all_filtered_out) = Len(data_df)

\* C2: a run ends with both output tables written or with neither.
C2_BothOutputsOrNeither ==
    pc \in {"done", "failed"} =>
        (OUTPUT_PATH \in written <=> FILTERED_OUT_PATH \in written)

HasStructuredAuthor(row) == notna(row["787_a"]) /\ row["787_a"] # <<>>

\* C3 as stated: a kept row with a non-empty structured (787)_a author has
\* that field's value as its reviewed-work author.
C3_AuthorIsStructuredValue ==
    Processed =>
        \A k \in 1..Len(final_df) :
            HasStructuredAuthor(final_df[k]) =>
                final_df[k]["recenzeta_darba_autors"] = final_df[k]["787_a"]

\* C3 amended: a kept row with a non-empty structured (787)_a author has as
\* its reviewed-work author the Name Normalizer's result for that value,
\* whatever the legacy (500)_a text and the subtitle hold.
C3_AuthorIsNormalizedStructuredValue ==
    Processed =>
        \A k \in 1..Len(final_df) :
            HasStructuredAuthor(final_df[k]) =>
                final_df[k]["recenzeta_darba_autors"]
                    = change_name_pattern(final_df[k]["787_a"])

\* a kept row with a structured author in "surname, name" order, a legacy
\* author and a director, all three different
C3_Witness ==
    /\ Processed
    /\ \E k \in 1..Len(final_df) :
          LET row == final_df[k]
              legacy == extract_author_from_500(row["500_a"])
              director == extract_director_from_245(row["245_b"])
          IN  /\ HasStructuredAuthor(row)
              /\ notna(legacy) /\ legacy # <<>>
              /\ notna(director)
              /\ row["recenzeta_darba_autors"] # legacy
              /\ row["recenzeta_darba_autors"] # director
              /\ row["recenzeta_darba_autors"] # row["787_a"]
              /\ row["recenzeta_darba_autors"] = change_name_pattern(row["787_a"])

InInputOrder(df) ==
    \A j, k \in 1..Len(df) : j < k => df[j]["idx"] < df[k]["idx"]

HasReason(df, reason) == \A k \in 1..Len(df) : df[k]["filter_reason"] = reason

resolved_publisher(row) ==
    fillna(replace_empty(fillna(value_or_none(row["787_d"]),
                                extract_publisher_from_500(row["500_a"]))),
           row["610_a"])

HasColon(x) == notna(x) /\ contains(x, <<":">>)

\* the text of x between its first colon and the first comma after that colon
\* (the end of x when no comma follows), trimmed
FirstColonToNextComma(x) ==
    LET colon == find(x, ":", 1)
    IN  strip(SubSeq(x, colon + 1, RunEnd(x, ",", colon + 1) - 1))

\* C11: the publisher/institution of a kept row whose resolved value has a
\* colon is the trimmed text between the first colon and the first comma after
\* it, further colons in that text included; a value without colon and an
\* absent value stay as they are.
C11_FirstColonToNextComma ==
    Processed =>
        \A k \in 1..Len(final_df) :
            LET x == resolved_publisher(final_df[k])
            IN  final_df[k]["publicetajs_vai_institucija"]
                    = IF HasColon(x) THEN FirstColonToNextComma(x) ELSE x

\* the reviewed-work title of a kept row after the structured (787)_t, the
\* legacy (500)_a and the quoted (245)_b fallbacks
title_after_fallbacks(row) ==
    fillna(replace_empty(fillna(value_or_none(row["787_t"]),
                                extract_title_from_500(row["500_a"]))),
           extract_title_from_245(row["245_b"]))

IsEmptyTitle(t) == isna(t) \/ t = <<>>

\* v up to its first colon, trimmed; absent when v is absent
TruncateAtFirstColon(v) ==
    IF isna(v) THEN NaN ELSE strip(SubSeq(v, 1, RunEnd(v, ":", 1) - 1))

\* C12: a kept row whose reviewed-work title is absent or an empty string
\* after the structured, legacy and quoted-title fallbacks takes it from the
\* film/performance title (630)_a; the title is then cut at its first colon
\* and trimmed.
C12_EmptyTitleFromFilmSubfield ==
    Processed =>
        \A k \in 1..Len(final_df) :
            LET row == final_df[k]
                title == title_after_fallbacks(row)
            IN  row["recenzetais_darbs"]
                    = TruncateAtFirstColon(IF IsEmptyTitle(title)
                                           THEN row["630_a"] ELSE title)

\* the value expand_marc_columns parsed into column col for the input row a
\* kept row comes from
parsed_value(row, col) == working_df[row["idx"]][col]

IsFullStop(c) == c = "."

IsNotFullStop(c) == c # "."

\* C13 as stated: the harmonized genre (655)_a and institution (610)_a of a
\* kept row are their parsed values without the periods at the end; periods
\* inside the value and every other character stay.
C13_OnlyTrailingPeriodsRemoved ==
    Processed =>
        \A k \in 1..Len(final_df) :
            \A col \in {"655_a", "610_a"} :
                LET parsed == parsed_value(final_df[k], col)
                IN  final_df[k][col]
                        = IF isna(parsed) THEN NaN ELSE rstrip_chars(parsed, {"."})

\* v without any of its periods, trimmed; absent when v is absent
WithoutPeriods(v) ==
    IF isna(v) THEN NaN ELSE strip(SelectSeq(v, IsNotFullStop))

\* C13 amended: the harmonized genre (655)_a of a kept row is its parsed value
\* with every period removed, the ones inside the value too, and trimmed; the
\* institution (610)_a likewise, with the exact result "Latvijas Nacionala
\* opera" replaced by its alias; an absent value stays absent.
C13_AllPeriodsRemoved ==
    Processed =>
        \A k \in 1..Len(final_df) :
            LET genre == WithoutPeriods(parsed_value(final_df[k], "655_a"))
                institution == WithoutPeriods(parsed_value(final_df[k], "610_a"))
            IN  /\ final_df[k]["655_a"] = genre
                /\ final_df[k]["610_a"]
                      = IF institution = Latvijas_Nacionala_opera
                        THEN Latvijas_Nacionala_opera_un_balets
                        ELSE institution

\* v has a period that is followed by another character
HasInteriorPeriod(v) ==
    notna(v) /\ \E i \in 1..(Len(v) - 1) : IsFullStop(v[i])

\* a kept row whose parsed genre and parsed institution both have a period
\* inside the value, and whose harmonized values have no period left
C13_Witness ==
    /\ Processed
    /\ \E k \in 1..Len(final_df) :
          \A col \in {"655_a", "610_a"} :
              /\ HasInteriorPeriod(parsed_value(final_df[k], col))
              /\ notna(final_df[k][col])
              /\ final_df[k][col] # <<>>
              /\ \A i \in 1..Len(final_df[k][col]) : IsNotFullStop(final_df[k][col][i])

====
